---------------------------- MODULE Spec2Model ----------------------------
(***************************************************************************)
(* A model of crates/typst/src/foundations/element.rs: the element handle, *)
(* its field-id contract, capability lookup, lazily built scope/params,    *)
(* handle comparison, the construct/set argument contracts, the Behave     *)
(* interaction policy and the show-rule Guard.                             *)
(*                                                                         *)
(* The module holds one state machine per component.  Every component owns *)
(* its variables; a component's specification keeps the other components'  *)
(* variables at their idle values.                                         *)
(***************************************************************************)
EXTENDS Integers, Sequences, FiniteSets, TLC

VARIABLES
    data,       \* the NativeElementData field tables of the kind under test
    fcall,      \* the last field_id / field_name call and what it returned
    vtable,     \* the kind's capability lookup: type id -> Option<*const ()>
    cell,       \* the kind's Lazy cells, scope and params
    pc,         \* where each pass (thread) is in its call on the handle
    calls,      \* how many calls on the handle the passes have made
    published,  \* per Lazy cell, every value ever stored into it
    observed,   \* per Lazy cell, every reference returned to a caller
    canObs,     \* answers of can / can_type_id: [id, ret]
    vtObs,      \* answers of the function vtable() returned: [id, ptr]
    registry,   \* the static metadata records: name and title of each
    handles,    \* the Element handles handed out so far
    cmpObs,     \* the last comparison of two handles and its results
    kind,       \* the parameters the kind's set rule and constructor parse
    args,       \* the argument list (Args) of the call in progress
    stage,      \* how far the call in progress has come
    log,        \* what the steps of the last set rule or call did
    input,      \* the behaviours of the elements pushed into the stream so far
    builder,    \* the merge pass: staged elements, last behaviour, output
    finished,   \* whether the stream has been finished
    recipes,    \* the show rules: what each selects and what it produces
    content,    \* the content nodes: element kind and guards stamped on it
    pass,       \* the number of the traversal pass under way
    transforms  \* how often each show rule has transformed each node

fieldVars == <<data, fcall>>

handleVars == <<vtable, cell, pc, calls, published, observed, canObs, vtObs>>

orderVars == <<registry, handles, cmpObs>>

argVars == <<kind, args, stage, log>>

mergeVars == <<input, builder, finished>>

guardVars == <<recipes, content, pass, transforms>>

vars == <<fieldVars, handleVars, orderVars, argVars, mergeVars, guardVars>>

(***************************************************************************)
(* Option<T>: None is the empty sequence, Some(x) the one-element one.     *)
(***************************************************************************)
None == <<>>
Some(x) == <<x>>
IsSome(o) == o # None
Unwrap(o) == o[1]

(***************************************************************************)
(* Field contract                                                          *)
(***************************************************************************)

\* The id reserved for the synthetic "label" field.
LabelId == 255

\* Per-kind field ids of the model are 0..MaxField; the u8 id space of the
\* model is those plus the reserved id.
MaxField == 1

FieldIds == 0..MaxField

U8 == FieldIds \cup {LabelId}

\* The strings the model passes as field names.
FieldNames == {"label", "a", "b"}

OptU8 == {None} \cup {Some(i) : i \in U8}

OptName == {None} \cup {Some(n) : n \in FieldNames}

\* NativeElementData.field_id and .field_name are two independent function
\* pointers: any pair of functions of the right types.
AnyFieldTables ==
    [field_id : [FieldNames -> OptU8], field_name : [U8 -> OptName]]

\* The tables a kind of the closed registry has: the two lookups are inverse
\* to each other on the kind's declared fields (a bijection), and declared
\* ids lie in the kind's own space, which excludes the reserved id.
RegisteredFieldTables ==
    {d \in AnyFieldTables :
        /\ \A n \in FieldNames :
              IsSome(d.field_id[n]) =>
                 /\ Unwrap(d.field_id[n]) \in FieldIds
                 /\ d.field_name[Unwrap(d.field_id[n])] = Some(n)
        /\ \A i \in U8 :
              IsSome(d.field_name[i]) =>
                 /\ i \in FieldIds
                 /\ d.field_id[Unwrap(d.field_name[i])] = Some(i)}

\* The declared field ids of a kind.
DeclaredIds(d) == {i \in U8 : IsSome(d.field_name[i])}

\* Mutant of Element_field_id: the "label" test is missing.
Element_field_id_NoLabelTest(d, name) ==
    [ret |-> d.field_id[name], delegated |-> TRUE]

\* Mutant of Element_field_id: the "label" test is negated.
Element_field_id_Negated(d, name) ==
    IF name # "label"
    THEN [ret |-> Some(LabelId), delegated |-> FALSE]
    ELSE [ret |-> d.field_id[name], delegated |-> TRUE]

\* Element::field_id.  ret is the returned Option<u8>; delegated tells
\* whether the kind's own field_id function was called.
Element_field_id(d, name) ==
    IF name = "label"
    THEN [ret |-> Some(LabelId), delegated |-> FALSE]
    ELSE [ret |-> d.field_id[name], delegated |-> TRUE]

\* Mutant of Element_field_name: the test for the reserved id is missing.
Element_field_name_NoLabelTest(d, id) ==
    [ret |-> d.field_name[id], delegated |-> TRUE]

\* Element::field_name.
Element_field_name(d, id) ==
    IF id = LabelId
    THEN [ret |-> Some("label"), delegated |-> FALSE]
    ELSE [ret |-> d.field_name[id], delegated |-> TRUE]

\* field_name(field_id(field_name(i))) through the handle, each absent
\* intermediate result ending the chain with None.
RoundTripName(d, i) ==
    LET n1 == Element_field_name(d, i).ret
    IN  IF ~IsSome(n1) THEN None
        ELSE LET id == Element_field_id(d, Unwrap(n1)).ret
             IN  IF ~IsSome(id) THEN None
                 ELSE Element_field_name(d, Unwrap(id)).ret

NoFieldCall == [op |-> "none", arg |-> None, ret |-> None, delegated |-> FALSE]

FieldsIdle ==
    /\ data = [field_id |-> [n \in FieldNames |-> None],
               field_name |-> [i \in U8 |-> None]]
    /\ fcall = NoFieldCall

\* A caller asks the handle for the id of a name.
CallFieldId ==
    /\ \E name \in FieldNames :
          LET r == Element_field_id(data, name)
          IN  fcall' = [op |-> "field_id", arg |-> Some(name),
                        ret |-> r.ret, delegated |-> r.delegated]
    /\ UNCHANGED <<data, handleVars, orderVars, argVars, mergeVars, guardVars>>

\* A caller asks the handle for the name of an id.
CallFieldName ==
    /\ \E id \in U8 :
          LET r == Element_field_name(data, id)
          IN  fcall' = [op |-> "field_name", arg |-> Some(id),
                        ret |-> r.ret, delegated |-> r.delegated]
    /\ UNCHANGED <<data, handleVars, orderVars, argVars, mergeVars, guardVars>>

\* A caller takes a declared id through name, id and name again.
CallRoundTrip ==
    /\ \E i \in DeclaredIds(data) :
          fcall' = [op |-> "round_trip", arg |-> Some(i),
                    ret |-> RoundTripName(data, i), delegated |-> TRUE]
    /\ UNCHANGED <<data, handleVars, orderVars, argVars, mergeVars, guardVars>>

FieldsNext ==
    \/ CallFieldId
    \/ CallFieldName
    \/ CallRoundTrip

\* Kinds of the registry.
FieldsInit ==
    /\ data \in RegisteredFieldTables
    /\ fcall = NoFieldCall

\* Any metadata record the types allow.
FieldsAnyInit ==
    /\ data \in AnyFieldTables
    /\ fcall = NoFieldCall

(***************************************************************************)
(* Capability lookup and the lazily built scope and params                 *)
(***************************************************************************)

\* Concurrent compilation passes, and the calls each makes on the handle.
NThreads == 2

MaxCalls == 4

Threads == 1..NThreads

\* The capabilities generic code asks for.
Capabilities == {"Show", "Behave"}

\* TypeId::of::<C>(): one id per capability type.
TypeId_of(C) ==
    CASE C = "Show" -> 11
      [] C = "Behave" -> 12

TypeIds == {TypeId_of(C) : C \in Capabilities}

\* The lookup function of a kind: a fixed relation from type ids to either
\* nothing or the pointer to the kind's table for that capability.
VtableFns == [TypeIds -> {None} \cup {Some("vt")}]

\* Mutant of Element_can_type_id: is_none in place of is_some.
Element_can_type_id_IsNone(vt, type_id) == ~IsSome(vt[type_id])

\* Element::can_type_id.
Element_can_type_id(vt, type_id) == IsSome(vt[type_id])

\* Element::can::<C>.
Element_can(vt, C) == Element_can_type_id(vt, TypeId_of(C))

\* Element::vtable: the raw lookup function.
Element_vtable(vt) == vt

LazyFields == {"scope", "params"}

\* Mutant of Lazy_may_init: a cell that is not yet complete may be
\* initialised by every caller that finds it so (no once-guard).
Lazy_may_init_Unguarded(state) == state # "complete"

\* sync::Lazy: only the caller that finds the cell incomplete, and moves it
\* to running, runs the initialiser.
Lazy_may_init(state) == state = "incomplete"

EmptyCell == [state |-> "incomplete", value |-> None]

IdlePc == [at |-> "idle", f |-> "scope"]

HandleIdle ==
    /\ vtable = [i \in TypeIds |-> None]
    /\ cell = [f \in LazyFields |-> EmptyCell]
    /\ pc = [t \in Threads |-> IdlePc]
    /\ calls = 0
    /\ published = [f \in LazyFields |-> {}]
    /\ observed = [f \in LazyFields |-> {}]
    /\ canObs = {}
    /\ vtObs = {}

HandleInit ==
    /\ vtable \in VtableFns
    /\ cell = [f \in LazyFields |-> EmptyCell]
    /\ pc = [t \in Threads |-> IdlePc]
    /\ calls = 0
    /\ published = [f \in LazyFields |-> {}]
    /\ observed = [f \in LazyFields |-> {}]
    /\ canObs = {}
    /\ vtObs = {}

MayCall(t) == pc[t].at = "idle" /\ calls < MaxCalls

\* can::<C>() on the handle.
CallCan(t) ==
    /\ MayCall(t)
    /\ \E C \in Capabilities :
          canObs' = canObs \cup
                      {[id |-> TypeId_of(C), ret |-> Element_can(vtable, C)]}
    /\ calls' = calls + 1
    /\ UNCHANGED <<vtable, cell, pc, published, observed, vtObs, fieldVars, orderVars, argVars, mergeVars, guardVars>>

\* can_type_id(id) on the handle.
CallCanTypeId(t) ==
    /\ MayCall(t)
    /\ \E id \in TypeIds :
          canObs' = canObs \cup
                      {[id |-> id, ret |-> Element_can_type_id(vtable, id)]}
    /\ calls' = calls + 1
    /\ UNCHANGED <<vtable, cell, pc, published, observed, vtObs, fieldVars, orderVars, argVars, mergeVars, guardVars>>

\* vtable() on the handle, and a call of the function it returned.
CallVtable(t) ==
    /\ MayCall(t)
    /\ \E id \in TypeIds :
          vtObs' = vtObs \cup {[id |-> id, ptr |-> Element_vtable(vtable)[id]]}
    /\ calls' = calls + 1
    /\ UNCHANGED <<vtable, cell, pc, published, observed, canObs, fieldVars, orderVars, argVars, mergeVars, guardVars>>

\* scope() or params(): the pass dereferences the Lazy cell.
LazyEnter(t) ==
    /\ MayCall(t)
    /\ \E f \in LazyFields : pc' = [pc EXCEPT ![t] = [at |-> "force", f |-> f]]
    /\ calls' = calls + 1
    /\ UNCHANGED <<vtable, cell, published, observed, canObs, vtObs, fieldVars, orderVars, argVars, mergeVars, guardVars>>

\* The pass finds the cell uninitialised and takes the initialisation.
LazyClaim(t) ==
    /\ pc[t].at = "force"
    /\ Lazy_may_init(cell[pc[t].f].state)
    /\ cell' = [cell EXCEPT ![pc[t].f].state = "running"]
    /\ pc' = [pc EXCEPT ![t].at = "init"]
    /\ UNCHANGED <<vtable, calls, published, observed, canObs, vtObs, fieldVars, orderVars, argVars, mergeVars, guardVars>>

\* The initialiser has run: its value (told apart by the pass that computed
\* it) is stored and the cell is complete.
LazyPublish(t) ==
    /\ pc[t].at = "init"
    /\ cell' = [cell EXCEPT ![pc[t].f] = [state |-> "complete", value |-> Some(t)]]
    /\ published' = [published EXCEPT ![pc[t].f] = @ \cup {t}]
    /\ pc' = [pc EXCEPT ![t].at = "force"]
    /\ UNCHANGED <<vtable, calls, observed, canObs, vtObs, fieldVars, orderVars, argVars, mergeVars, guardVars>>

\* The cell is complete: the call returns a reference to the stored value.
\* A pass that finds the cell running waits.
LazyReturn(t) ==
    /\ pc[t].at = "force"
    /\ cell[pc[t].f].state = "complete"
    /\ observed' = [observed EXCEPT ![pc[t].f] = @ \cup {Unwrap(cell[pc[t].f].value)}]
    /\ pc' = [pc EXCEPT ![t] = IdlePc]
    /\ UNCHANGED <<vtable, cell, calls, published, canObs, vtObs, fieldVars, orderVars, argVars, mergeVars, guardVars>>

HandleNext ==
    \E t \in Threads :
        \/ CallCan(t)
        \/ CallCanTypeId(t)
        \/ CallVtable(t)
        \/ LazyEnter(t)
        \/ LazyClaim(t)
        \/ LazyPublish(t)
        \/ LazyReturn(t)

(***************************************************************************)
(* Handles: equality, hashing and ordering                                 *)
(***************************************************************************)

\* Metadata records of the model, and the longest kind name.
NKinds == 2

MaxNameLen == 2

\* The bytes kind names are made of.
Bytes == {97, 98}

RECURSIVE StrsOfLen(_)
StrsOfLen(n) ==
    IF n = 0 THEN {<<>>}
    ELSE {<<c>> \o w : c \in Bytes, w \in StrsOfLen(n - 1)}

\* Non-empty names up to the longest.
KindNames == UNION {StrsOfLen(n) : n \in 1..MaxNameLen}

KindTitles == {"Grid Cell", "Table Cell"}

\* A static NativeElementData is known by its address.
Pointers == 1..NKinds

\* Any statics the record type allows: name and title are plain strings.
Registries == [Pointers -> [name : KindNames, title : KindTitles]]

\* str::cmp: bytewise lexicographic order.
RECURSIVE StrCmp(_, _)
StrCmp(a, b) ==
    IF a = <<>> /\ b = <<>> THEN "Equal"
    ELSE IF a = <<>> THEN "Less"
    ELSE IF b = <<>> THEN "Greater"
    ELSE IF Head(a) < Head(b) THEN "Less"
    ELSE IF Head(a) > Head(b) THEN "Greater"
    ELSE StrCmp(Tail(a), Tail(b))

\* Static<T>: equality and hash of the reference, not of what it refers to.
Static_eq(p, q) == p = q

Static_hash(p) == p

\* impl From<&'static NativeElementData> for Element.
Element_from(p) == [static |-> p]

\* Element::name and Element::title.
Element_name(reg, e) == reg[e.static].name

Element_title(reg, e) == reg[e.static].title

\* #[derive(PartialEq, Eq)] on Element: equality of the one field.
Element_eq(a, b) == Static_eq(a.static, b.static)

\* #[derive(Hash)] on Element.
Element_hash(e) == Static_hash(e.static)

\* Mutant of Element_cmp: the titles are compared, not the names.
Element_cmp_ByTitle(reg, a, b) ==
    IF Element_title(reg, a) = Element_title(reg, b) THEN "Equal"
    ELSE IF Element_title(reg, a) = "Grid Cell" THEN "Less" ELSE "Greater"

\* impl Ord for Element.
Element_cmp(reg, a, b) == StrCmp(Element_name(reg, a), Element_name(reg, b))

\* impl PartialOrd for Element.
Element_partial_cmp(reg, a, b) == Some(Element_cmp(reg, a, b))

NoCmp == [op |-> "none"]

OrderIdle ==
    /\ registry = [p \in Pointers |-> [name |-> <<97>>, title |-> "Grid Cell"]]
    /\ handles = {}
    /\ cmpObs = NoCmp

OrderInit ==
    /\ registry \in Registries
    /\ handles = {}
    /\ cmpObs = NoCmp

\* Element::of::<T>() / T::elem(): a handle to the kind's static record.
Of ==
    /\ \E p \in Pointers : handles' = handles \cup {Element_from(p)}
    /\ UNCHANGED <<registry, cmpObs, fieldVars, handleVars, argVars, mergeVars, guardVars>>

\* Two handles (copies included) are compared with ==, hashed and ordered.
Compare ==
    /\ \E a, b \in handles :
          cmpObs' = [op |-> "cmp", a |-> a, b |-> b,
                     eq |-> Element_eq(a, b),
                     sameHash |-> Element_hash(a) = Element_hash(b),
                     sameRecord |-> a.static = b.static,
                     sameName |-> Element_name(registry, a) = Element_name(registry, b),
                     ord |-> Element_cmp(registry, a, b),
                     pord |-> Element_partial_cmp(registry, a, b)]
    /\ UNCHANGED <<registry, handles, fieldVars, handleVars, argVars, mergeVars, guardVars>>

OrderNext ==
    \/ Of
    \/ Compare

(***************************************************************************)
(* construct and set                                                       *)
(***************************************************************************)

\* The longest argument list of the model.
MaxArgs == 3

\* Argument names: a style property, a structural one, one no kind knows.
ArgNames == {"fill", "body", "stray"}

RECURSIVE ArgListsOfLen(_)
ArgListsOfLen(n) ==
    IF n = 0 THEN {<<>>}
    ELSE {<<a>> \o w : a \in ArgNames, w \in ArgListsOfLen(n - 1)}

ArgLists == UNION {ArgListsOfLen(n) : n \in 0..MaxArgs}

\* The names in a list.
NamesOf(list) == {list[i] : i \in DOMAIN list}

\* What a kind's set rule parses (style) and what its constructor takes (con).
ElemKinds == [style : SUBSET ArgNames, con : SUBSET ArgNames]

\* Args: taking arguments by name removes them from the list, order kept.
Args_take(list, names) == SelectSeq(list, LAMBDA a : a \notin names)

\* Args::finish: fails when an argument is left.
Args_finish(list) ==
    IF list = <<>> THEN [tag |-> "Ok", val |-> {}]
    ELSE [tag |-> "Err", val |-> "finish"]

\* A kind's Set::set on &mut Args: it takes some of its style arguments and
\* parses them into a style delta, or fails on one of them.
Set_set(k, list, ok, took) ==
    [ret  |-> IF ok THEN [tag |-> "Ok", val |-> took]
                    ELSE [tag |-> "Err", val |-> "set"],
     args |-> Args_take(list, took)]

\* A kind's Construct::construct on &mut Args.
Construct_construct(k, list, ok, took) ==
    [ret  |-> IF ok THEN [tag |-> "Ok", val |-> took]
                    ELSE [tag |-> "Err", val |-> "construct"],
     args |-> Args_take(list, took)]

\* What a set rule of kind k may take from a list, and a constructor.
SetTakes(k, list) == SUBSET (NamesOf(list) \cap k.style)

ConstructTakes(k, list) == SUBSET (NamesOf(list) \cap k.con)

\* Mutant of Element_set: the styles are returned without the finish check.
Element_set_NoFinish(k, list, ok, took) ==
    LET r == Set_set(k, list, ok, took)
    IN  [ret |-> r.ret, args |-> r.args, finishRan |-> FALSE]

\* Element::set: the kind's set function, `?`, args.finish(), `?`, Ok(styles).
Element_set(k, list, ok, took) ==
    LET r == Set_set(k, list, ok, took)
    IN  IF r.ret.tag = "Err"
        THEN [ret |-> r.ret, args |-> r.args, finishRan |-> FALSE]
        ELSE IF Args_finish(r.args).tag = "Err"
        THEN [ret |-> Args_finish(r.args), args |-> r.args, finishRan |-> TRUE]
        ELSE [ret |-> r.ret, args |-> r.args, finishRan |-> TRUE]

\* Mutant of Element_construct: the constructor result is returned only
\* after a finish check of its own.
Element_construct_Finishes(k, list, ok, took) ==
    LET r == Construct_construct(k, list, ok, took)
    IN  IF r.ret.tag = "Ok" /\ Args_finish(r.args).tag = "Err"
        THEN [ret |-> Args_finish(r.args), args |-> r.args]
        ELSE r

\* Element::construct: the kind's construct function on the caller's list.
Element_construct(k, list, ok, took) == Construct_construct(k, list, ok, took)

NoRet == [tag |-> "none", val |-> {}]

NoLog ==
    [op |-> "none", orig |-> <<>>, setOk |-> FALSE, setTook |-> {},
     setRet |-> NoRet, finishRan |-> FALSE, left |-> <<>>,
     conSaw |-> <<>>, conOk |-> FALSE, conTook |-> {}, conRet |-> NoRet,
     finRet |-> NoRet]

ArgsIdle ==
    /\ kind = [style |-> {}, con |-> {}]
    /\ args = <<>>
    /\ stage = "idle"
    /\ log = NoLog

ArgsInit ==
    /\ kind \in ElemKinds
    /\ args = <<>>
    /\ stage = "idle"
    /\ log = NoLog

\* A set rule: Element::set on an argument list of its own.
SetRule ==
    /\ stage = "idle"
    /\ \E list \in ArgLists, ok \in BOOLEAN :
        \E took \in SetTakes(kind, list) :
          LET r == Element_set(kind, list, ok, took)
          IN  log' = [NoLog EXCEPT !.op = "set", !.orig = list, !.setOk = ok,
                                   !.setTook = took, !.setRet = r.ret,
                                   !.finishRan = r.finishRan, !.left = r.args]
    /\ stage' = "set_returned"
    /\ UNCHANGED <<kind, args, fieldVars, handleVars, orderVars, mergeVars, guardVars>>

\* A call of the element with an argument list begins.
CallBegin ==
    /\ stage = "idle"
    /\ \E list \in ArgLists :
          /\ args' = list
          /\ log' = [NoLog EXCEPT !.op = "call", !.orig = list]
    /\ stage' = "called"
    /\ UNCHANGED <<kind, fieldVars, handleVars, orderVars, mergeVars, guardVars>>

\* First the kind's set rule runs on the list.
CallSet ==
    /\ stage = "called"
    /\ \E ok \in BOOLEAN : \E took \in SetTakes(kind, args) :
          LET r == Set_set(kind, args, ok, took)
          IN  /\ args' = r.args
              /\ log' = [log EXCEPT !.setOk = ok, !.setTook = took,
                                    !.setRet = r.ret]
              /\ stage' = IF ok THEN "set_done" ELSE "failed"
    /\ UNCHANGED <<kind, fieldVars, handleVars, orderVars, mergeVars, guardVars>>

\* Then Element::construct gets what is left of it.
CallConstruct ==
    /\ stage = "set_done"
    /\ \E ok \in BOOLEAN : \E took \in ConstructTakes(kind, args) :
          LET r == Element_construct(kind, args, ok, took)
          IN  /\ args' = r.args
              /\ log' = [log EXCEPT !.conSaw = args, !.conOk = ok,
                                    !.conTook = took, !.conRet = r.ret]
              /\ stage' = IF r.ret.tag = "Ok" THEN "constructed" ELSE "failed"
    /\ UNCHANGED <<kind, fieldVars, handleVars, orderVars, mergeVars, guardVars>>

\* Then the caller checks that nothing is left.
CallFinish ==
    /\ stage = "constructed"
    /\ log' = [log EXCEPT !.finRet = Args_finish(args), !.left = args]
    /\ stage' = "finished"
    /\ UNCHANGED <<kind, args, fieldVars, handleVars, orderVars, mergeVars, guardVars>>

\* The set rule or the call has returned, its value or its diagnostic, and
\* its argument list is dropped.
CallReturn ==
    /\ stage \in {"finished", "failed", "set_returned"}
    /\ stage' = "idle"
    /\ args' = <<>>
    /\ log' = NoLog
    /\ UNCHANGED <<kind, fieldVars, handleVars, orderVars, mergeVars, guardVars>>

ArgsNext ==
    \/ SetRule
    \/ CallBegin
    \/ CallSet
    \/ CallConstruct
    \/ CallFinish
    \/ CallReturn

(***************************************************************************)
(* Behave: how elements of a stream interact                               *)
(***************************************************************************)

\* The longest stream and the highest weakness level of the model.
MaxStream == 5

MaxLevel == 1

\* enum Behaviour.  level is read for Weak only.
Weak(level) == [kind |-> "Weak", level |-> level]

Supportive == [kind |-> "Supportive", level |-> 0]

Destructive == [kind |-> "Destructive", level |-> 0]

Ignorant == [kind |-> "Ignorant", level |-> 0]

Invisible == [kind |-> "Invisible", level |-> 0]

\* Mutant of Behave_larger: the default says the later element is larger.
Behave_larger_True(elem, prev) == TRUE

\* Behave::larger, the default body: never larger than the previous one.
Behave_larger(elem, prev) == FALSE

\* The merge pass before any element: nothing staged, and a stream edge
\* supports no weak element.
NewBuilder == [staged |-> <<>>, last |-> Destructive, out |-> <<>>]

RemoveAt(seq, i) == SubSeq(seq, 1, i - 1) \o SubSeq(seq, i + 1, Len(seq))

MinOf(S) == CHOOSE x \in S : \A y \in S : x <= y

\* End of a run: the staged weak elements go to the output only when the
\* run ends with a supportive element; ignorant and invisible ones always.
Flush(b, supportive) ==
    LET keep(e) == supportive \/ e.beh.kind \in {"Ignorant", "Invisible"}
        kept == SelectSeq(b.staged, keep)
    IN  [b EXCEPT !.staged = <<>>,
                  !.out = @ \o [i \in 1..Len(kept) |-> kept[i].idx]]

\* The staged weak elements the new weak element beats: those of a higher
\* level, and those of its level that it is larger than.
Beaten(b, elem) ==
    {i \in DOMAIN b.staged :
        /\ b.staged[i].beh.kind = "Weak"
        /\ \/ elem.beh.level < b.staged[i].beh.level
           \/ /\ elem.beh.level = b.staged[i].beh.level
              /\ Behave_larger(elem, b.staged[i])}

\* One weak element enters the pass.
PushWeakInto(b, elem) ==
    IF b.last.kind = "Weak" /\ Beaten(b, elem) = {}
    THEN b
    ELSE LET s1 == IF b.last.kind = "Weak"
                   THEN RemoveAt(b.staged, MinOf(Beaten(b, elem)))
                   ELSE b.staged
         IN  IF b.last # Destructive
             THEN [b EXCEPT !.staged = Append(s1, elem), !.last = elem.beh]
             ELSE [b EXCEPT !.staged = s1]

\* One supportive or destructive element enters the pass.
PushStrongInto(b, elem) ==
    LET f == Flush(b, elem.beh = Supportive)
    IN  [f EXCEPT !.out = Append(@, elem.idx), !.last = elem.beh]

\* One ignorant or invisible element enters the pass.
PushIgnorantInto(b, elem) == [b EXCEPT !.staged = Append(@, elem)]

\* The element an instance with behaviour beh becomes as the next of the
\* stream.
NextElem(beh) == [idx |-> Len(input) + 1, beh |-> beh]

MergeIdle ==
    /\ input = <<>>
    /\ builder = NewBuilder
    /\ finished = FALSE

MergeInit == MergeIdle

MayPush == ~finished /\ Len(input) < MaxStream

\* A weak instance is pushed.
PushWeak ==
    /\ MayPush
    /\ \E level \in 0..MaxLevel :
          /\ input' = Append(input, Weak(level))
          /\ builder' = PushWeakInto(builder, NextElem(Weak(level)))
    /\ UNCHANGED <<finished, fieldVars, handleVars, orderVars, argVars, guardVars>>

\* A supportive instance is pushed.
PushSupportive ==
    /\ MayPush
    /\ input' = Append(input, Supportive)
    /\ builder' = PushStrongInto(builder, NextElem(Supportive))
    /\ UNCHANGED <<finished, fieldVars, handleVars, orderVars, argVars, guardVars>>

\* A destructive instance is pushed.
PushDestructive ==
    /\ MayPush
    /\ input' = Append(input, Destructive)
    /\ builder' = PushStrongInto(builder, NextElem(Destructive))
    /\ UNCHANGED <<finished, fieldVars, handleVars, orderVars, argVars, guardVars>>

\* An ignorant or an invisible instance is pushed.
PushIgnorant ==
    /\ MayPush
    /\ \E beh \in {Ignorant, Invisible} :
          /\ input' = Append(input, beh)
          /\ builder' = PushIgnorantInto(builder, NextElem(beh))
    /\ UNCHANGED <<finished, fieldVars, handleVars, orderVars, argVars, guardVars>>

\* The stream ends: what is staged is flushed as at a stream edge.
FinishStream ==
    /\ ~finished
    /\ builder' = Flush(builder, FALSE)
    /\ finished' = TRUE
    /\ UNCHANGED <<input, fieldVars, handleVars, orderVars, argVars, guardVars>>

MergeNext ==
    \/ PushWeak
    \/ PushSupportive
    \/ PushDestructive
    \/ PushIgnorant
    \/ FinishStream

(***************************************************************************)
(* Guard: show rules and the content they have processed                   *)
(***************************************************************************)

\* Show rules, content nodes and traversal passes of the model, and the cap
\* on the transformations of one node by one rule.
NRecipes == 2

NNodes == 2

MaxPasses == 2

MaxTransforms == 2

Recipes == 1..NRecipes

Nodes == 1..NNodes

ContentKinds == {"heading", "strong"}

\* struct Guard(pub usize).
Guard(n) == [token |-> n]

\* Mutant of Guard_eq: the tokens are compared one off.
Guard_eq_OneOff(g, h) == g.token = h.token + 1

\* #[derive(PartialEq, Eq)] on Guard: equality of the token.
Guard_eq(g, h) == g.token = h.token

\* The token of a show rule: minted anew at every application, the same
\* number every time.
GuardOf(r) == Guard(r)

\* Whether content carries a guard.
IsGuarded(node, g) == \E h \in node.guards : Guard_eq(h, g)

\* Whether a show rule selects a node: its selector matches and the node
\* does not carry its guard.
Selects(r, n) ==
    /\ content[n].kind = recipes[r].selects
    /\ ~IsGuarded(content[n], GuardOf(r))

GuardIdle ==
    /\ recipes = [r \in Recipes |-> [selects |-> "heading", produces |-> "heading"]]
    /\ content = [n \in Nodes |-> [kind |-> "heading", guards |-> {}]]
    /\ pass = 1
    /\ transforms = [r \in Recipes |-> [n \in Nodes |-> 0]]

GuardInit ==
    /\ recipes \in [Recipes -> [selects : ContentKinds, produces : ContentKinds]]
    /\ content \in [Nodes -> [kind : ContentKinds, guards : {{}}]]
    /\ pass = 1
    /\ transforms = [r \in Recipes |-> [n \in Nodes |-> 0]]

\* A show rule transforms a node it selects; what it produces stands in the
\* node's place, stamped with the rule's guard.
ApplyRecipe ==
    /\ \E r \in Recipes, n \in Nodes :
          /\ Selects(r, n)
          /\ transforms[r][n] < MaxTransforms
          /\ content' = [content EXCEPT
                           ![n] = [kind |-> recipes[r].produces,
                                   guards |-> @.guards \cup {GuardOf(r)}]]
          /\ transforms' = [transforms EXCEPT ![r][n] = @ + 1]
    /\ UNCHANGED <<recipes, pass, fieldVars, handleVars, orderVars, argVars,
                   mergeVars>>

\* The traversal starts over on the same content.
NextPass ==
    /\ pass < MaxPasses
    /\ pass' = pass + 1
    /\ UNCHANGED <<recipes, content, transforms, fieldVars, handleVars,
                   orderVars, argVars, mergeVars>>

GuardNext ==
    \/ ApplyRecipe
    \/ NextPass

(***************************************************************************)
(* Specifications: one per component, the other components idle            *)
(***************************************************************************)

\* The field contract over the kinds of the registry.
InitFields == FieldsInit /\ HandleIdle /\ OrderIdle /\ ArgsIdle /\ MergeIdle /\ GuardIdle

SpecFields == InitFields /\ [][FieldsNext]_vars

\* The field contract over any metadata record.
InitFieldsAny == FieldsAnyInit /\ HandleIdle /\ OrderIdle /\ ArgsIdle /\ MergeIdle /\ GuardIdle

SpecFieldsAny == InitFieldsAny /\ [][FieldsNext]_vars

\* Concurrent passes using one handle.
InitHandle == FieldsIdle /\ HandleInit /\ OrderIdle /\ ArgsIdle /\ MergeIdle /\ GuardIdle

SpecHandle == InitHandle /\ [][HandleNext]_vars

\* Handles to the records of a registry, compared with each other.
InitOrder == FieldsIdle /\ HandleIdle /\ OrderInit /\ ArgsIdle /\ MergeIdle /\ GuardIdle

SpecOrder == InitOrder /\ [][OrderNext]_vars

\* Set rules and element calls of one kind.
InitArgs == FieldsIdle /\ HandleIdle /\ OrderIdle /\ ArgsInit /\ MergeIdle /\ GuardIdle

SpecArgs == InitArgs /\ [][ArgsNext]_vars

\* One stream of elements going through the merge pass.
InitMerge == FieldsIdle /\ HandleIdle /\ OrderIdle /\ ArgsIdle /\ MergeInit /\ GuardIdle

SpecMerge == InitMerge /\ [][MergeNext]_vars

\* Show rules applied to content over several traversal passes.
InitGuard == FieldsIdle /\ HandleIdle /\ OrderIdle /\ ArgsIdle /\ MergeIdle /\ GuardInit

SpecGuard == InitGuard /\ [][GuardNext]_vars

(***************************************************************************)
(* Claims about the field contract                                         *)
(***************************************************************************)

\* C1: for every kind, whatever its own tables hold, field_id("label") is
\* 255 and field_name(255) is "label", and the kind's own lookup functions
\* are not called for that name or that id.
C1_LabelReserved ==
    /\ Element_field_id(data, "label")
          = [ret |-> Some(LabelId), delegated |-> FALSE]
    /\ Element_field_name(data, LabelId)
          = [ret |-> Some("label"), delegated |-> FALSE]
    /\ (fcall.op = "field_id" /\ fcall.arg = Some("label"))
          => (fcall.ret = Some(LabelId) /\ ~fcall.delegated)
    /\ (fcall.op = "field_name" /\ fcall.arg = Some(LabelId))
          => (fcall.ret = Some("label") /\ ~fcall.delegated)

\* A kind whose own tables answer differently for "label" and for 255, asked
\* for the id of "label".
C1_Witness ==
    /\ fcall.op = "field_id"
    /\ fcall.arg = Some("label")
    /\ data.field_id["label"] = Some(0)
    /\ data.field_name[LabelId] = Some("a")

\* C2: for every registered kind and every declared field id i of it,
\* field_name(field_id(field_name(i))) = field_name(i) through the handle,
\* also when the kind itself declares a field named "label".
C2_RoundTrip ==
    /\ \A i \in DeclaredIds(data) :
          /\ IsSome(Element_field_name(data, i).ret)
          /\ RoundTripName(data, i) = Element_field_name(data, i).ret
    /\ fcall.op = "round_trip"
          => fcall.ret = Element_field_name(data, Unwrap(fcall.arg)).ret

\* The round trip was taken on a field the kind itself names "label".
C2_Witness ==
    /\ fcall.op = "round_trip"
    /\ data.field_name[Unwrap(fcall.arg)] = Some("label")
    /\ fcall.ret = Some("label")

C4_CanIffVtablePresent ==
    /\ \A o \in canObs : (o.ret = FALSE) <=> (vtable[o.id] = None)
    /\ \A o1, o2 \in canObs : o1.id = o2.id => o1.ret = o2.ret
    /\ \A o \in canObs : \A v \in vtObs :
          o.id = v.id => ((o.ret = FALSE) <=> (v.ptr = None))

\* Both answers were seen, for two ids, while a Lazy cell was being built.
C4_Witness ==
    /\ \E o1, o2 \in canObs : o1.ret /\ ~o2.ret
    /\ \E f \in LazyFields : cell[f].state = "running"
    /\ vtObs # {}

\* C8: under any interleaving of concurrent first calls of scope() (and of
\* params()), at most one computed value is ever stored per cell, and every
\* call returns that one value.
C8_LazyInitOnce ==
    \A f \in LazyFields :
        /\ Cardinality(published[f]) <= 1
        /\ Cardinality(observed[f]) <= 1
        /\ observed[f] \subseteq published[f]
        /\ cell[f].state = "complete" => published[f] = {Unwrap(cell[f].value)}

\* Two passes are inside scope() at once; the value pass 1 computed is the
\* stored one and has been returned to an earlier call.
C8_Witness ==
    /\ pc[1] = [at |-> "force", f |-> "scope"]
    /\ pc[2] = [at |-> "force", f |-> "scope"]
    /\ cell["scope"] = [state |-> "complete", value |-> Some(1)]
    /\ published["scope"] = {1}
    /\ observed["scope"] = {1}

(***************************************************************************)
(* Claims about handle comparison                                          *)
(***************************************************************************)

C6_SetThenFinish ==
    log.op = "set" =>
        /\ (log.setRet.tag = "Ok") <=> (log.setOk /\ log.left = <<>>)
        /\ log.setRet.tag = "Ok" => log.setRet.val = log.setTook
        /\ ~log.setOk =>
              (log.setRet = [tag |-> "Err", val |-> "set"] /\ ~log.finishRan)
        /\ (log.setOk /\ log.left # <<>>) =>
              (log.setRet = [tag |-> "Err", val |-> "finish"] /\ log.finishRan)
        /\ log.left = Args_take(log.orig, log.setTook)

\* The kind's set function took its argument and succeeded, one was left.
C6_Witness ==
    /\ log.op = "set"
    /\ log.setOk
    /\ log.setTook # {}
    /\ log.left # <<>>
    /\ log.setRet.tag = "Err"

\* C7: when set and then construct run on one argument list, what set took
\* is not there for construct, construct takes only arguments meaningful to
\* the kind and makes no finish check of its own, and an argument taken by
\* neither makes finish fail.
C7_SetBeforeConstruct ==
    (log.op = "call" /\ log.conRet # NoRet) =>
        /\ NamesOf(log.conSaw) \cap log.setTook = {}
        /\ log.conSaw = Args_take(log.orig, log.setTook)
        /\ log.conTook \subseteq kind.con
        /\ (log.conRet.tag = "Ok") <=> log.conOk
        /\ log.conRet.tag = "Err" => log.conRet.val = "construct"
        /\ stage \in {"constructed", "failed"} =>
              args = Args_take(log.orig, log.setTook \cup log.conTook)
        /\ stage = "finished" =>
              ((log.finRet.tag = "Err") <=>
                  (NamesOf(log.orig) \ (log.setTook \cup log.conTook) # {}))

\* set took one argument, construct another, a third made finish fail.
C7_Witness ==
    /\ log.op = "call"
    /\ stage = "finished"
    /\ log.setTook # {}
    /\ log.conTook # {}
    /\ log.finRet.tag = "Err"

(***************************************************************************)
(* Claims about the interaction of elements                                *)
(***************************************************************************)

\* The positions i < j of two supportive elements with nothing but weak
\* elements, at least one, between them.
WeakRuns ==
    {r \in (DOMAIN input) \X (DOMAIN input) :
        /\ r[1] + 1 < r[2]
        /\ input[r[1]] = Supportive
        /\ input[r[2]] = Supportive
        /\ \A k \in (r[1] + 1)..(r[2] - 1) : input[k].kind = "Weak"}

InOutput(k) == \E n \in DOMAIN builder.out : builder.out[n] = k

\* The first position of the run with the lowest level of the run.
FirstLowest(r) ==
    LET run == (r[1] + 1)..(r[2] - 1)
        lowest == MinOf({input[k].level : k \in run})
    IN  MinOf({k \in run : input[k].level = lowest})

\* C9: of a run of weak elements between two supportive ones exactly one
\* survives the merge pass, the one of the lowest level and, among several
\* of that level, the first, as the default larger never replaces; both
\* supportive elements stay.
C9_LowestFirstWeakSurvives ==
    \A r \in WeakRuns :
        /\ InOutput(r[1]) /\ InOutput(r[2])
        /\ {k \in (r[1] + 1)..(r[2] - 1) : InOutput(k)} = {FirstLowest(r)}

\* Supportive, Weak(1), Weak(0), Weak(0), Supportive has gone through: the
\* first Weak(0) is what is left of the run.
C9_Witness ==
    /\ Len(input) = 5
    /\ input = <<Supportive, Weak(1), Weak(0), Weak(0), Supportive>>
    /\ builder.out = <<1, 3, 5>>

(***************************************************************************)
(* Claims about the guard                                                  *)
(***************************************************************************)

=============================================================================
